---- MODULE Spec2Model ----
(***************************************************************************)
(* Grid model, border rendering, column naming and the freehand mouse tool *)
(* of src/lib.rs.                                                          *)
(*                                                                         *)
(* The drawing context is modelled by the sequence of calls it received.   *)
(* f64 quantities (widths, heights, coordinates) take small integer        *)
(* values, on which f64 arithmetic is exact.  column_id is a u32 whose     *)
(* whole range matters for get_column_name, so it is kept as two 16-bit    *)
(* limbs; row and column counts stay small and are plain naturals.         *)
(***************************************************************************)
EXTENDS Integers, Sequences, FiniteSets, TLC

VARIABLES
    pc,               \* "init", "lib" (library use: Grid::new called), "app" (start() returned)
    overflow_checks,  \* build profile: TRUE = arithmetic overflow panics, FALSE = it wraps
    ctx,              \* calls received by the CanvasRenderingContext2d, oldest first
    grid,             \* Option<Grid>: the grid owned by the caller of Grid::new
    lookup,           \* Option of the last get_column call and its result
    console,          \* lines written by log!
    pressed,          \* Rc<Cell<bool>> shared by the three mouse closures
    cols,             \* columns built directly with Column::new
    names             \* result of get_column_name on each of cols

vars == <<pc, overflow_checks, ctx, grid, lookup, console, pressed, cols, names>>

----------------------------------------------------------------------------
(* Bounds of the model *)

MaxRows == 2
MaxCols == 3
MaxWidthUnits == 2
MaxCoord == 0
MaxMouseCalls == 7
MaxColumnId == 702
MaxPairId == 55

(* Constants of the program *)

CellHeight == 30
DefaultWidth == 80
BootRows == 12
BootCols == 350
BootLast == 349

----------------------------------------------------------------------------
(* Option<T> *)

None == [some |-> FALSE]
Some(v) == [some |-> TRUE, value |-> v]

----------------------------------------------------------------------------
(* u32 as two 16-bit limbs: value = hi * 65536 + lo *)

Limb == 65536

U32(hi, lo) == [hi |-> hi, lo |-> lo]

U32FromNat(n) == U32(n \div Limb, n % Limb)

\* defined for values below 2^31 only
U32ToNat(x) == x.hi * Limb + x.lo

U32Zero == U32(0, 0)

U32Max == U32(Limb - 1, Limb - 1)

U32Less(x, y) == x.hi < y.hi \/ (x.hi = y.hi /\ x.lo < y.lo)

\* x + 1 on u32: the wrapped sum and whether it overflowed
U32AddOne(x) ==
    IF x.lo < Limb - 1 THEN [overflow |-> FALSE, value |-> U32(x.hi, x.lo + 1)]
    ELSE IF x.hi < Limb - 1 THEN [overflow |-> FALSE, value |-> U32(x.hi + 1, 0)]
    ELSE [overflow |-> TRUE, value |-> U32Zero]

\* x - 1 on u32, for x > 0
U32SubOne(x) ==
    IF x.lo > 0 THEN U32(x.hi, x.lo - 1) ELSE U32(x.hi - 1, Limb - 1)

\* x % 26 and x / 26 by long division over the limbs
U32Rem26(x) == ((x.hi % 26) * Limb + x.lo) % 26

U32Div26(x) == U32(x.hi \div 26, ((x.hi % 26) * Limb + x.lo) \div 26)

----------------------------------------------------------------------------
(* CellObject *)

CellObject_new(column_id, row_id, height, width) ==
    [column_id |-> column_id,
     row_id    |-> row_id,
     value     |-> [tag |-> "String", payload |-> None],
     height    |-> height,
     width     |-> width]

CellObject_get_value(cell) == cell.value

\* draw with the x offset scaled by the height instead of the width
CellObject_draw_XByHeight(cell) ==
    << [op |-> "begin_path"],
       [op |-> "rect",
        x |-> U32ToNat(cell.column_id) * cell.height,
        y |-> cell.row_id * cell.height,
        w |-> cell.width,
        h |-> cell.height],
       [op |-> "stroke"] >>

\* Border::draw: the calls one cell issues on its context
CellObject_draw(cell) ==
    << [op |-> "begin_path"],
       [op |-> "rect",
        x |-> U32ToNat(cell.column_id) * cell.width,
        y |-> cell.row_id * cell.height,
        w |-> cell.width,
        h |-> cell.height],
       [op |-> "stroke"] >>

----------------------------------------------------------------------------
(* Column *)

\* the calls of seqs[lo], seqs[lo + 1], ..., seqs[hi], in that order
RECURSIVE Concat(_, _, _)
Concat(seqs, lo, hi) ==
    IF lo > hi THEN <<>>
    ELSE IF lo = hi THEN seqs[lo]
    ELSE LET mid == (lo + hi) \div 2
         IN Concat(seqs, lo, mid) \o Concat(seqs, mid + 1, hi)

\* Column::new iterating over 1..=num_rows instead of 0..num_rows
Column_new_RowsFromOne(calls, column_id, num_rows, width) ==
    LET cells == [i \in 1..num_rows |->
                    CellObject_new(column_id, i, CellHeight, width)]
        draws == [i \in 1..num_rows |-> CellObject_draw(cells[i])]
    IN [column |-> [column_id   |-> column_id,
                    column_type |-> "String",
                    width       |-> width,
                    cells       |-> cells],
        calls |-> calls \o Concat(draws, 1, num_rows)]

\* (0..num_rows).map(|row_id| { new; draw; cell }).collect(): the iterator
\* builds and draws the cells one after the other in ascending row_id
Column_new(calls, column_id, num_rows, width) ==
    LET cells == [i \in 1..num_rows |->
                    CellObject_new(column_id, i - 1, CellHeight, width)]
        draws == [i \in 1..num_rows |-> CellObject_draw(cells[i])]
    IN [column |-> [column_id   |-> column_id,
                    column_type |-> "String",
                    width       |-> width,
                    cells       |-> cells],
        calls |-> calls \o Concat(draws, 1, num_rows)]

Column_get_width(column) == column.width

\* set_width that also rewrites the width of the column's cells
Column_set_width_Propagating(column, new_width) ==
    [column EXCEPT !.width = new_width,
                   !.cells = [i \in 1..Len(column.cells) |->
                                [column.cells[i] EXCEPT !.width = new_width]]]

Column_set_width(column, new_width) == [column EXCEPT !.width = new_width]

Letters ==
    << "A", "B", "C", "D", "E", "F", "G", "H", "I", "J", "K", "L", "M",
       "N", "O", "P", "Q", "R", "S", "T", "U", "V", "W", "X", "Y", "Z" >>

\* (b'A'..=b'Z').enumerate().find(|&(i, _)| i as u32 == k)
FindLetter(k) ==
    LET hits == {i \in 0..(Len(Letters) - 1) : i = k}
    IN IF hits = {} THEN None
       ELSE Some(Letters[(CHOOSE i \in hits : \A j \in hits : i <= j) + 1])

\* the loop without its n = n - 1: plain base 26
RECURSIVE NameLoop_NoDecrement(_, _)
NameLoop_NoDecrement(n, name) ==
    IF ~U32Less(U32Zero, n) THEN name
    ELSE LET k == U32Rem26(n)
             found == FindLetter(k)
         IN NameLoop_NoDecrement(U32Div26(n),
                                 IF found.some THEN Append(name, found.value) ELSE name)

\* the while loop of get_column_name
RECURSIVE NameLoop(_, _)
NameLoop(n, name) ==
    IF ~U32Less(U32Zero, n) THEN name
    ELSE LET m == U32SubOne(n)
             k == U32Rem26(m)
             found == FindLetter(k)
         IN NameLoop(U32Div26(m),
                     IF found.some THEN Append(name, found.value) ELSE name)

\* name.chars().rev().collect()
Reverse(s) == [i \in 1..Len(s) |-> s[Len(s) + 1 - i]]

\* get_column_name returning the letters as pushed, least significant first
Column_get_column_name_NoReverse(column, checks) ==
    LET sum == U32AddOne(column.column_id)
    IN IF sum.overflow /\ checks
       THEN [panicked |-> TRUE, name |-> <<>>]
       ELSE [panicked |-> FALSE, name |-> NameLoop(sum.value, <<>>)]

\* the outcome of get_column_name: a panic, or the returned string
Column_get_column_name(column, checks) ==
    LET sum == U32AddOne(column.column_id)
    IN IF sum.overflow /\ checks
       THEN [panicked |-> TRUE, name |-> <<>>]
       ELSE [panicked |-> FALSE, name |-> Reverse(NameLoop(sum.value, <<>>))]

----------------------------------------------------------------------------
(* Grid *)

\* (0..num_cols).map(|column_id| Column::new(ctx, column_id, num_rows, 80.0)).collect():
\* the columns are built one after the other in ascending column_id, each on
\* the context as the previous one left it
Grid_new(calls, num_rows, num_cols) ==
    LET built == [i \in 1..num_cols |->
                    Column_new(<<>>, U32FromNat(i - 1), num_rows, DefaultWidth)]
        columns == [i \in 1..num_cols |-> built[i].column]
        draws == [i \in 1..num_cols |-> built[i].calls]
    IN [grid |-> [columns  |-> columns,
                  num_rows |-> num_rows,
                  num_cols |-> num_cols],
        calls |-> calls \o Concat(draws, 1, num_cols)]

\* get_column taking col_num as a one-based position
Grid_get_column_OneBased(g, col_num) ==
    IF 1 <= col_num /\ col_num <= Len(g.columns) THEN Some(g.columns[col_num]) ELSE None

\* self.columns.get(col_num as usize)
Grid_get_column(g, col_num) ==
    IF col_num < Len(g.columns) THEN Some(g.columns[col_num + 1]) ELSE None

\* self.columns.iter().map(|col| col.get_width()).sum(); the widths are small
\* integers, whose sum does not depend on the grouping of the additions
RECURSIVE SumFrom(_, _, _)
SumFrom(columns, lo, hi) ==
    IF lo > hi THEN 0
    ELSE IF lo = hi THEN Column_get_width(columns[lo])
    ELSE LET mid == (lo + hi) \div 2
         IN SumFrom(columns, lo, mid) + SumFrom(columns, mid + 1, hi)

\* get_width derived from the column count instead of the columns' widths
Grid_get_width_FromCount(g) == g.num_cols * DefaultWidth

Grid_get_width(g) == SumFrom(g.columns, 1, Len(g.columns))

----------------------------------------------------------------------------
(* Inputs *)

RowCounts == 0..MaxRows
ColCounts == 0..MaxCols
ColNums == 0..(MaxCols + 1)
Widths == {40 * u : u \in 1..MaxWidthUnits}
Coords == 0..MaxCoord

\* context calls issued by Grid::new(&context, 12, 350) in start()
BootCalls == 3 * BootRows * BootCols

----------------------------------------------------------------------------
(* State machine: the library operations and the start() entry point *)

Init ==
    /\ pc = "init"
    /\ overflow_checks \in BOOLEAN
    /\ ctx = <<>>
    /\ grid = None
    /\ lookup = None
    /\ console = <<>>
    /\ pressed = FALSE
    /\ cols = <<>>
    /\ names = <<>>

\* a caller builds a grid on a fresh context
GridNew(num_rows, num_cols) ==
    /\ pc = "init"
    /\ LET built == Grid_new(ctx, num_rows, num_cols)
       IN /\ grid' = Some(built.grid)
          /\ ctx' = built.calls
    /\ pc' = "lib"
    /\ UNCHANGED <<overflow_checks, lookup, console, pressed, cols, names>>

\* grid.get_column(col_num); the returned reference borrows the grid
GetColumn(col_num) ==
    /\ pc = "lib"
    /\ grid.some
    /\ lookup' = Some([col_num |-> col_num,
                       result  |-> Grid_get_column(grid.value, col_num)])
    /\ UNCHANGED <<pc, overflow_checks, ctx, grid, console, pressed, cols, names>>

\* columns[c].set_width(new_width); the mutable borrow ends any earlier lookup
SetWidth(c, new_width) ==
    /\ pc = "lib"
    /\ grid.some
    /\ c \in 1..Len(grid.value.columns)
    /\ grid' = Some([grid.value EXCEPT
                        !.columns[c] = Column_set_width(grid.value.columns[c], new_width)])
    /\ lookup' = None
    /\ UNCHANGED <<pc, overflow_checks, ctx, console, pressed, cols, names>>

\* start(), lines 204-256: build the grid, log its width and the name of
\* column 349, install the three mouse listeners; the grid is a local of
\* start() and is dropped when it returns
Start ==
    /\ pc = "init"
    /\ LET built == Grid_new(ctx, BootRows, BootCols)
           a == Grid_get_width(built.grid)
           col == Grid_get_column(built.grid, BootLast)
           width_line == [fmt |-> "grid width: {}", arg |-> a]
       IN /\ ctx' = built.calls
          /\ console' =
                IF col.some
                THEN << width_line,
                        [fmt |-> "{}",
                         arg |-> Column_get_column_name(col.value, overflow_checks)] >>
                ELSE << width_line >>
    /\ pressed' = FALSE
    /\ grid' = None
    /\ pc' = "app"
    /\ UNCHANGED <<overflow_checks, lookup, cols, names>>

\* mousedown closure
MouseDown(x, y) ==
    /\ pc = "app"
    /\ Len(ctx) < BootCalls + MaxMouseCalls
    /\ ctx' = ctx \o << [op |-> "begin_path"], [op |-> "move_to", x |-> x, y |-> y] >>
    /\ pressed' = TRUE
    /\ UNCHANGED <<pc, overflow_checks, grid, lookup, console, cols, names>>

\* mousemove closure
MouseMove(x, y) ==
    /\ pc = "app"
    /\ Len(ctx) < BootCalls + MaxMouseCalls
    /\ IF pressed
       THEN ctx' = ctx \o << [op |-> "line_to", x |-> x, y |-> y],
                             [op |-> "stroke"],
                             [op |-> "begin_path"],
                             [op |-> "move_to", x |-> x, y |-> y] >>
       ELSE ctx' = ctx
    /\ UNCHANGED <<pc, overflow_checks, grid, lookup, console, pressed, cols, names>>

\* mouseup closure
MouseUp(x, y) ==
    /\ pc = "app"
    /\ Len(ctx) < BootCalls + MaxMouseCalls
    /\ pressed' = FALSE
    /\ ctx' = ctx \o << [op |-> "line_to", x |-> x, y |-> y], [op |-> "stroke"] >>
    /\ UNCHANGED <<pc, overflow_checks, grid, lookup, console, cols, names>>

Next ==
    \/ \E num_rows \in RowCounts, num_cols \in ColCounts : GridNew(num_rows, num_cols)
    \/ \E col_num \in ColNums : GetColumn(col_num)
    \/ \E c \in 1..MaxCols, new_width \in Widths : SetWidth(c, new_width)
    \/ Start
    \/ \E x \in Coords, y \in Coords : MouseDown(x, y)
    \/ \E x \in Coords, y \in Coords : MouseMove(x, y)
    \/ \E x \in Coords, y \in Coords : MouseUp(x, y)

Spec == Init /\ [][Next]_vars

----------------------------------------------------------------------------
(* Column naming: columns built with Column::new at chosen ids *)

\* ids around the changes of name length and at the top of the u32 range
EdgeIds ==
    { U32FromNat(701), U32FromNat(702), U32FromNat(703),
      U32FromNat(18277), U32FromNat(18278),
      U32(Limb - 1, Limb - 2), U32Max }

NameIds == {U32FromNat(n) : n \in 0..MaxColumnId} \cup EdgeIds

PairIds == {U32FromNat(n) : n \in 0..MaxPairId} \cup EdgeIds

\* Column::new(ctx, column_id, 0, 80.0)
ColumnAt(column_id) == Column_new(<<>>, column_id, 0, DefaultWidth).column

InitCommon ==
    /\ pc = "lib"
    /\ overflow_checks \in BOOLEAN
    /\ ctx = <<>>
    /\ grid = None
    /\ lookup = None
    /\ console = <<>>
    /\ pressed = FALSE

InitName ==
    /\ InitCommon
    /\ \E id \in NameIds : cols = << ColumnAt(id) >>
    /\ names = << None >>

InitPair ==
    /\ InitCommon
    /\ \E a \in PairIds, b \in PairIds : cols = << ColumnAt(a), ColumnAt(b) >>
    /\ names = << None, None >>

\* cols[i].get_column_name()
GetColumnName(i) ==
    /\ i \in 1..Len(cols)
    /\ ~names[i].some
    /\ names' = [names EXCEPT ![i] = Some(Column_get_column_name(cols[i], overflow_checks))]
    /\ UNCHANGED <<pc, overflow_checks, ctx, grid, lookup, console, pressed, cols>>

NextName == \E i \in 1..2 : GetColumnName(i)

SpecName == InitName /\ [][NextName]_vars

SpecPair == InitPair /\ [][NextName]_vars

----------------------------------------------------------------------------
(* Reference definitions used by the properties *)

RECURSIVE Pow26(_)
Pow26(l) == IF l = 0 THEN 1 ELSE 26 * Pow26(l - 1)

\* number of names of length 1..l
RECURSIVE NamesUpTo(_)
NamesUpTo(l) == IF l = 0 THEN 0 ELSE Pow26(l) + NamesUpTo(l - 1)

\* the id-th name (from 0) when all names over A-Z are listed by length and
\* alphabetically within a length
RefName(id) ==
    LET l == CHOOSE len \in 1..6 : NamesUpTo(len - 1) <= id /\ id < NamesUpTo(len)
        offset == id - NamesUpTo(l - 1)
    IN [i \in 1..l |-> Letters[((offset \div Pow26(l - i)) % 26) + 1]]

Ord(ch) == CHOOSE i \in 1..Len(Letters) : Letters[i] = ch

\* s before t: shorter first, alphabetical within a length
NameLess(s, t) ==
    \/ Len(s) < Len(t)
    \/ /\ Len(s) = Len(t)
       /\ \E i \in 1..Len(s) :
            /\ Ord(s[i]) < Ord(t[i])
            /\ \A j \in 1..(i - 1) : s[j] = t[j]

IsName(s) == Len(s) > 0 /\ \A i \in 1..Len(s) : \E j \in 1..Len(Letters) : s[i] = Letters[j]

RECURSIVE SumOver(_, _)
SumOver(f, S) ==
    IF S = {} THEN 0
    ELSE LET i == CHOOSE j \in S : TRUE IN f[i] + SumOver(f, S \ {i})

\* the border of cell (c, r) of a grid of default-width columns
BorderRect(c, r) ==
    [op |-> "rect", x |-> c * DefaultWidth, y |-> r * CellHeight,
     w |-> DefaultWidth, h |-> CellHeight]

\* num_rows * num_cols borders, column by column
ExpectedDraws(num_rows, num_cols) ==
    [k \in 1..(3 * num_rows * num_cols) |->
        LET cell == (k - 1) \div 3
        IN CASE (k - 1) % 3 = 0 -> [op |-> "begin_path"]
             [] (k - 1) % 3 = 1 -> BorderRect(cell \div num_rows, cell % num_rows)
             [] OTHER -> [op |-> "stroke"]]

\* position in ctx of the rect call of cell (c, r)
RectPos(c, r) == CHOOSE k \in 1..Len(ctx) : ctx[k] = BorderRect(c, r)

----------------------------------------------------------------------------
(* Properties *)

\* C1: for every column_id up to MaxColumnId the name returned by
\* get_column_name is the reference bijective base-26 name; ids 0..25 give
\* the single letter, 26 "AA", 27 "AB", 51 "AZ", 52 "BA", 701 "ZZ", 702 "AAA".
C1_NameMatchesReference ==
    \A i \in 1..Len(cols) :
        (names[i].some /\ U32Less(cols[i].column_id, U32FromNat(MaxColumnId + 1))) =>
            LET id == U32ToNat(cols[i].column_id)
                r == names[i].value
            IN /\ ~r.panicked
               /\ r.name = RefName(id)
               /\ id <= 25 => r.name = << Letters[id + 1] >>
               /\ id = 26 => r.name = << "A", "A" >>
               /\ id = 27 => r.name = << "A", "B" >>
               /\ id = 51 => r.name = << "A", "Z" >>
               /\ id = 52 => r.name = << "B", "A" >>
               /\ id = 701 => r.name = << "Z", "Z" >>
               /\ id = 702 => r.name = << "A", "A", "A" >>

C1_Witness ==
    /\ Len(cols) = 1
    /\ cols[1].column_id = U32FromNat(702)
    /\ names[1].some
    /\ names[1].value.name = << "A", "A", "A" >>

\* C2 as stated: after start() built the 12 x 350 grid, the name of column
\* 349 it logged is "MX".
C2_BootLastNameIsMX ==
    pc = "app" =>
        /\ Len(console) = 2
        /\ ~console[2].arg.panicked
        /\ console[2].arg.name = << "M", "X" >>

\* C2 amended: after start() built the 12 x 350 grid, the name of column 349
\* it logged is "ML".
C2_BootLastNameIsML ==
    pc = "app" =>
        /\ Len(console) = 2
        /\ ~console[2].arg.panicked
        /\ console[2].arg.name = << "M", "L" >>

C2_Witness ==
    /\ pc = "app"
    /\ Len(console) = 2
    /\ console[2].fmt = "{}"
    /\ Len(console[2].arg.name) = 2

\* C3: get_column_name is total over u32: for every column_id up to
\* 2^32 - 1 it does not panic and returns a non-empty string of letters A-Z.
C3_NameTotal ==
    \A i \in 1..Len(cols) :
        names[i].some =>
            /\ ~names[i].value.panicked
            /\ IsName(names[i].value.name)

\* C4: for column ids a < b the name of a is strictly smaller than the name
\* of b (shorter first, alphabetical within a length); distinct ids have
\* distinct names.
C4_NameStrictlyMonotonic ==
    \A i, j \in 1..Len(cols) :
        (names[i].some /\ names[j].some /\ U32Less(cols[i].column_id, cols[j].column_id)) =>
            /\ ~names[i].value.panicked
            /\ ~names[j].value.panicked
            /\ NameLess(names[i].value.name, names[j].value.name)
            /\ names[i].value.name # names[j].value.name

\* C5: a built grid has num_cols columns of num_rows cells each, column c
\* has column_id c and its cell r has column_id c and row_id r, in every
\* state after Grid::new.
C5_GridShape ==
    grid.some =>
        LET g == grid.value
        IN /\ Len(g.columns) = g.num_cols
           /\ \A c \in 1..g.num_cols :
                /\ Len(g.columns[c].cells) = g.num_rows
                /\ g.columns[c].column_id = U32FromNat(c - 1)
                /\ \A r \in 1..g.num_rows :
                     /\ g.columns[c].cells[r].column_id = U32FromNat(c - 1)
                     /\ g.columns[c].cells[r].row_id = r - 1

C5_Witness ==
    /\ grid.some
    /\ grid.value.num_rows = 2
    /\ grid.value.num_cols = 3
    /\ \E c \in 1..3 : grid.value.columns[c].width # DefaultWidth
    /\ lookup.some

\* C6: Grid.get_width equals the sum of the widths of the grid's columns in
\* every state after construction and any set_width calls; right after
\* Grid::new it is num_cols * 80 whatever num_rows is; start() logs 28000.
C6_GridWidth ==
    [][ /\ grid'.some =>
            LET g == grid'.value
            IN /\ Grid_get_width(g) =
                    SumOver([c \in 1..Len(g.columns) |-> g.columns[c].width],
                            1..Len(g.columns))
               /\ ~grid.some => Grid_get_width(g) = g.num_cols * 80
        /\ (pc = "init" /\ pc' = "app") =>
            /\ console'[1].fmt = "grid width: {}"
            /\ console'[1].arg = 28000 ]_vars

C6_Witness ==
    /\ grid.some
    /\ grid.value.num_rows = 0
    /\ grid.value.num_cols = 3
    /\ grid.value.columns[2].width = 40
    /\ Grid_get_width(grid.value) = 200

\* C7: Grid::new issues exactly num_rows * num_cols border draws on the
\* context, each begin_path, rect(column_id * 80, row_id * 30, 80, 30),
\* stroke, column by column in ascending row_id; (c, r) is drawn before
\* (c2, r2) exactly when c < c2, or c = c2 and r < r2.
C7_DrawOrder ==
    /\ (pc = "lib" /\ grid.some) =>
        LET g == grid.value
        IN /\ ctx = ExpectedDraws(g.num_rows, g.num_cols)
           /\ Len(ctx) = 3 * g.num_rows * g.num_cols
           /\ \A c \in 0..(g.num_cols - 1), r \in 0..(g.num_rows - 1) :
                /\ ctx[RectPos(c, r)] = BorderRect(c, r)
                /\ ctx[RectPos(c, r) - 1].op = "begin_path"
                /\ ctx[RectPos(c, r) + 1].op = "stroke"
           /\ \A c, c2 \in 0..(g.num_cols - 1), r, r2 \in 0..(g.num_rows - 1) :
                (RectPos(c, r) < RectPos(c2, r2)) <=> (c < c2 \/ (c = c2 /\ r < r2))
    /\ pc = "app" =>
        /\ Len(ctx) >= BootCalls
        /\ Len(ctx) = BootCalls => ctx = ExpectedDraws(BootRows, BootCols)

C7_Witness ==
    /\ pc = "lib"
    /\ grid.some
    /\ grid.value.num_rows = 2
    /\ grid.value.num_cols = 3
    /\ Len(ctx) = 18
    /\ ctx[11] = BorderRect(1, 1)

\* C8: get_column(col_num) returns the column whose column_id is col_num
\* when col_num < num_cols and absent otherwise, also on a grid without
\* columns, and leaves the grid and the context as they were.
C8_GetColumn ==
    [][ (lookup'.some /\ lookup' # lookup) =>
            LET l == lookup'.value
                g == grid.value
            IN /\ l.col_num < g.num_cols =>
                    /\ l.result.some
                    /\ l.result.value.column_id = U32FromNat(l.col_num)
                    /\ l.result.value = g.columns[l.col_num + 1]
               /\ l.col_num >= g.num_cols => l.result = None
               /\ grid' = grid
               /\ ctx' = ctx ]_vars

C8_Witness ==
    /\ grid.some
    /\ grid.value.num_cols = 3
    /\ lookup.some
    /\ lookup.value.col_num = 2
    /\ lookup.value.result.some
    /\ lookup.value.result.value.width = 40

C8_WitnessAbsent ==
    /\ grid.some
    /\ grid.value.num_cols = 0
    /\ lookup.some
    /\ ~lookup.value.result.some

\* C9: every cell is built with its column's width; set_width changes only
\* the width field of the one column: its cells, the other columns and the
\* context stay as they were.
C9_SetWidthFrame ==
    [][ /\ (~grid.some /\ grid'.some) =>
            \A c \in 1..Len(grid'.value.columns) :
                \A r \in 1..Len(grid'.value.columns[c].cells) :
                    grid'.value.columns[c].cells[r].width = grid'.value.columns[c].width
        /\ (grid.some /\ grid'.some /\ grid' # grid) =>
            LET g == grid.value
                h == grid'.value
            IN /\ h.num_rows = g.num_rows
               /\ h.num_cols = g.num_cols
               /\ Len(h.columns) = Len(g.columns)
               /\ \E c \in 1..Len(g.columns) :
                    /\ h.columns[c].width # g.columns[c].width
                    /\ h.columns[c] = [g.columns[c] EXCEPT !.width = h.columns[c].width]
                    /\ h.columns[c].cells = g.columns[c].cells
                    /\ \A r \in 1..Len(h.columns[c].cells) :
                         h.columns[c].cells[r].value = [tag |-> "String", payload |-> None]
                    /\ \A d \in 1..Len(g.columns) : d # c => h.columns[d] = g.columns[d]
               /\ ctx' = ctx ]_vars

C9_Witness ==
    /\ grid.some
    /\ grid.value.num_rows = 2
    /\ grid.value.num_cols >= 2
    /\ grid.value.columns[2].width = 40
    /\ grid.value.columns[2].cells[1].width = 80
    /\ grid.value.columns[1].width = 80

\* C10: after start(), pressed is true exactly between a mousedown and the
\* next mouseup, and the mouse callbacks issue line_to and stroke only for
\* an event that arrives while pressed is true.
C10_DrawOnlyWhilePressed ==
    [][ pc = "app" =>
            LET ops == [k \in 1..(Len(ctx') - Len(ctx)) |-> ctx'[Len(ctx) + k].op]
            IN /\ ops = << "begin_path", "move_to" >> => pressed'
               /\ ops = << "line_to", "stroke" >> => ~pressed'
               /\ ops \notin {<< "begin_path", "move_to" >>, << "line_to", "stroke" >>}
                    => pressed' = pressed
               /\ (\E k \in 1..Len(ops) : ops[k] \in {"line_to", "stroke"}) => pressed ]_vars

====
